---------------------------- MODULE Spec2Model ----------------------------
(***************************************************************************)
(* A model of src/index.js: HttpClient.request (retry with exponential     *)
(* backoff), DataValidator, ApiService (sort and limit), and               *)
(* DataProcessor.process / main (sequential users, concurrent comment      *)
(* fetches per user, CSV sink, exit status).                               *)
(*                                                                         *)
(* JavaScript runs one callback at a time: every action below is one       *)
(* callback (a response, a rejection or a timer) together with all the     *)
(* synchronous code and promise continuations that follow it, up to the    *)
(* next point where the program waits for the network, a timer or the      *)
(* file system.                                                            *)
(***************************************************************************)
EXTENDS Integers, Sequences, FiniteSets, TLC

VARIABLES
    CONFIG,      \* the CONFIG object: maxRetries, retryDelay, postsPerUser, commentsPerPost
    server,      \* the backing data: users, postsOf[userId], commentsOf[postId]
    pc,          \* where process() waits: init, users, posts, comments, write, done, fatal
    req,         \* the request awaited by the coordinator (users or posts), <<>> if none
    evenUsers,   \* const evenUsers (line 154)
    ui,          \* index in evenUsers of the user of the current loop iteration
    tasks,       \* the promises of posts.map(async ...) of the current user (line 162)
    doneOrder,   \* indexes of tasks in the order they settled (observation only)
    allRecords,  \* const allRecords (line 156)
    written,     \* the arguments of the calls of csvWriter.writeRecords that were made
    exitCode,    \* <<>> while running, <<0>> after a normal end, <<1>> after process.exit(1)
    arg, ret,    \* FnSpec, ValidateSpec: the argument and the result of one call of a function
    outcomes,    \* every logical request that ended: url, ok (observation only)
    last,        \* the logical request that ended last, with its attempts and waits
    log,         \* which error handlers ran (Logger.error / Logger.warn calls)
    runs         \* TwiceSpec only: what the earlier runs of the program ended with

vars == <<CONFIG, server, pc, req, evenUsers, ui, tasks, doneOrder, allRecords,
          written, exitCode, arg, ret, outcomes, last, log, runs>>

-----------------------------------------------------------------------------
(* Bounds of the model.                                                    *)

\* Spec: maxRetries ranges over 0..MaxRetries
MaxRetries == 1
\* Spec: postsPerUser and commentsPerPost range over 0..MaxLimit
MaxLimit == 2
\* Spec: the users body holds at most MaxUsers users
MaxUsers == 2
\* Spec: a posts body holds at most MaxPosts posts, a comments body at most MaxComments
MaxPosts == 2
MaxComments == 2
\* TwiceSpec: the program is run again at most MaxReruns times
MaxReruns == 1
\* RetrySpec: maxRetries ranges over 0..RetryMaxRetries
RetryMaxRetries == 3
\* FnSpec: a body holds at most SortMaxLen items, the limits are in 0..SortMaxLen
SortMaxLen == 3

-----------------------------------------------------------------------------
(* JavaScript values. A field of a JSON object is a number, a string, a     *)
(* boolean, null, or absent (reading it gives undefined).                  *)

Num(n) == [t |-> "number", v |-> n]
Str(s) == [t |-> "string", v |-> s]
Bool(b) == [t |-> "boolean", v |-> b]
Null == [t |-> "null"]
Undefined == [t |-> "undefined"]

\* Truthy with every number taken for truthy, 0 too
TruthyNumbers(x) ==
    CASE x.t = "number" -> TRUE
      [] x.t = "string" -> x.v # ""
      [] x.t = "boolean" -> x.v
      [] OTHER -> FALSE

\* ToBoolean(x): 0, "" and false are falsy, null and undefined are falsy
Truthy(x) ==
    CASE x.t = "number" -> x.v # 0
      [] x.t = "string" -> x.v # ""
      [] x.t = "boolean" -> x.v
      [] OTHER -> FALSE

\* ToNumber(x) is NaN: undefined is, and so is a string that is not empty
\* (the strings of the model are names and texts, not numerals); numbers,
\* booleans, null (0) and "" (0) are not.
IsNaN(x) == x.t = "undefined" \/ (x.t = "string" /\ x.v # "")

\* ToNumber(x) where it is not NaN
ToNumber(x) ==
    CASE x.t = "number" -> x.v
      [] x.t = "boolean" -> IF x.v THEN 1 ELSE 0
      [] OTHER -> 0

Min(a, b) == IF a < b THEN a ELSE b

RECURSIVE Pow2(_)
Pow2(k) == IF k = 0 THEN 1 ELSE 2 * Pow2(k - 1)


-----------------------------------------------------------------------------
(* HttpClient.request: one logical request is a record                      *)
(*   url, retries (the parameter of the current call), phase (inflight:     *)
(*   axios.get is pending; waiting: the setTimeout of line 45 is pending),  *)
(*   and two observations: attempts (calls of axios.get so far) and waits   *)
(*   (the delays waited so far).                                            *)

UsersUrl == <<"users">>
PostsUrl(userId) == <<"posts", userId>>
CommentsUrl(postId) == <<"comments", postId>>

\* request(url, retries = 0) up to the await of line 38
NewRequest(url) ==
    [url |-> url, retries |-> 0, phase |-> "inflight", attempts |-> 1, waits |-> <<>>]

\* CanRetry with the comparison off by one
CanRetryInclusive(r) == r.retries <= CONFIG.maxRetries

\* line 42
CanRetry(r) == r.retries < CONFIG.maxRetries

\* line 43
Delay(retries) == CONFIG.retryDelay * Pow2(retries)

\* lines 43-45: the catch block up to the await of the timer
StartWait(r) == [r EXCEPT !.phase = "waiting", !.waits = Append(@, Delay(r.retries))]

\* Reissue with request(url, retries) called again instead of
\* request(url, retries + 1)
ReissueSameRetries(r) == [r EXCEPT !.phase = "inflight", !.attempts = @ + 1]

\* line 46, up to the await of line 38 in the recursive call
Reissue(r) == [r EXCEPT !.phase = "inflight", !.retries = @ + 1, !.attempts = @ + 1]

\* what is remembered of a request that ended (returned a body or threw)
Outcome(r, ok) == [url |-> r.url, ok |-> ok, attempts |-> r.attempts, waits |-> r.waits]
Ended(r, ok) == [url |-> r.url, ok |-> ok]

-----------------------------------------------------------------------------
(* DataValidator                                                            *)

\* required.filter(field => !entity[field])
Missing(entity, required) == {f \in required : ~Truthy(entity[f])}

\* validatePost with the title not required
validatePostIdOnly(post) == Missing(post, {"id"}) = {}

validateUser(user) == Missing(user, {"id", "name"}) = {}

validatePost(post) == Missing(post, {"id", "title"}) = {}

validateComment(comment) == Missing(comment, {"id", "body", "email"}) = {}

-----------------------------------------------------------------------------
(* ApiService: the comparator of lines 98-103 and 109-114 and              *)
(* Array.prototype.sort as Node's engine runs it on an array of fewer than *)
(* 64 elements: find the leading run (reversed if strictly descending),    *)
(* then binary insertion of the remaining elements.                        *)

\* (a, b) => { if (a.date && b.date) return new Date(b.date) - new Date(a.date);
\*             return b.id - a.id; }, the result as sort reads it (NaN as +0)
compareFn(a, b) ==
    IF Truthy(a.date) /\ Truthy(b.date)
    THEN ToNumber(b.date) - ToNumber(a.date)
    ELSE IF IsNaN(a.id) \/ IsNaN(b.id) THEN 0 ELSE ToNumber(b.id) - ToNumber(a.id)

Reverse(s) == [i \in 1..Len(s) |-> s[Len(s) + 1 - i]]

\* the length of the run that starts at s[1]; idx is the next position to look at
RECURSIVE RunLength(_, _, _)
RunLength(s, idx, isDescending) ==
    IF idx > Len(s) THEN idx - 1
    ELSE LET order == compareFn(s[idx], s[idx - 1])
         IN IF (isDescending /\ order >= 0) \/ (~isDescending /\ order < 0)
            THEN idx - 1
            ELSE RunLength(s, idx + 1, isDescending)

\* the binary search of the insertion point of pivot in s[left+1 .. right]
RECURSIVE InsertionPoint(_, _, _, _)
InsertionPoint(s, pivot, left, right) ==
    IF left >= right THEN left
    ELSE LET mid == left + ((right - left) \div 2)
         IN IF compareFn(pivot, s[mid + 1]) < 0
            THEN InsertionPoint(s, pivot, left, mid)
            ELSE InsertionPoint(s, pivot, mid + 1, right)

\* s with s[start] moved to its insertion point among s[1 .. start-1], for
\* start, start+1, ..., Len(s)
RECURSIVE BinaryInsertionSort(_, _)
BinaryInsertionSort(s, start) ==
    IF start > Len(s) THEN s
    ELSE LET pivot == s[start]
             left == InsertionPoint(s, pivot, 0, start - 1)
             moved == [i \in 1..Len(s) |->
                         IF i <= left THEN s[i]
                         ELSE IF i = left + 1 THEN pivot
                         ELSE IF i <= start THEN s[i - 1]
                         ELSE s[i]]
         IN BinaryInsertionSort(moved, start + 1)

\* array.sort(compareFn)
Sort(s) ==
    IF Len(s) < 2 THEN s
    ELSE LET isDescending == compareFn(s[2], s[1]) < 0
             run == RunLength(s, 3, isDescending)
             made == IF isDescending
                     THEN Reverse(SubSeq(s, 1, run)) \o SubSeq(s, run + 1, Len(s))
                     ELSE s
         IN BinaryInsertionSort(made, run + 1)

\* Slice with one item too many kept
SliceInclusive(s, n) == SubSeq(s, 1, Min(n + 1, Len(s)))

\* array.slice(0, n) for n >= 0
Slice(s, n) == SubSeq(s, 1, Min(n, Len(s)))

\* what getPostsByUserId returns when the request returned the body posts
getPostsByUserId(posts) == Slice(Sort(posts), CONFIG.postsPerUser)

\* what getCommentsByPostId returns when the request returned the body comments
getCommentsByPostId(comments) == Slice(Sort(comments), CONFIG.commentsPerPost)


-----------------------------------------------------------------------------
(* DataProcessor.process and main                                           *)

NoRequest == [url |-> <<>>, retries |-> 0, phase |-> "none", attempts |-> 0, waits |-> <<>>]

\* IsEven with every user kept
IsEvenAll(user) == TRUE

\* users.filter(user => user.id % 2 === 0); ids are not negative
IsEven(user) == ~IsNaN(user.id) /\ ToNumber(user.id) % 2 = 0

\* lines 176-184
Record(user, post, comment) ==
    [userId |-> user.id, userName |-> user.name,
     postId |-> post.id, postTitle |-> post.title,
     commentId |-> comment.id, commentBody |-> comment.body,
     commentEmail |-> comment.email]

\* RowsOfPost with a post that has an invalid comment left without any row
RowsOfPostAllValid(user, post, comments) ==
    IF \A i \in 1..Len(comments) : validateComment(comments[i])
    THEN [i \in 1..Len(comments) |-> Record(user, post, comments[i])]
    ELSE <<>>

\* lines 174-186: the rows of one { post, comments }
RowsOfPost(user, post, comments) ==
    LET valid == SelectSeq(comments, validateComment)
    IN [i \in 1..Len(valid) |-> Record(user, post, valid[i])]

\* MergeOrder with the results taken in the order the tasks settled
MergeByCompletion(ts) == doneOrder'

\* the order in which line 173 visits postsWithComments
MergeOrder(ts) == [i \in 1..Len(ts) |-> i]

\* lines 173-187: the rows of the settled tasks ts of user
RECURSIVE RowsOfTasks(_, _, _, _)
RowsOfTasks(user, ts, order, k) ==
    IF k > Len(order) THEN <<>>
    ELSE RowsOfPost(user, ts[order[k]].post, ts[order[k]].comments)
         \o RowsOfTasks(user, ts, order, k + 1)

\* lines 163-165: the promise of one post, up to its first await
NewTask(post) ==
    IF ~validatePost(post)
    THEN [post |-> post, state |-> "fulfilled", req |-> NoRequest, comments |-> <<>>]
    ELSE [post |-> post, state |-> "pending", req |-> NewRequest(CommentsUrl(post.id)),
          comments |-> <<>>]

\* TaskFulfilled with the post read from a variable that the tasks share and
\* that holds the post of the first task
TaskFulfilledSharedPost(t, body) ==
    [t EXCEPT !.state = "fulfilled", !.req = NoRequest,
              !.comments = getCommentsByPostId(body), !.post = tasks[1].post]

\* lines 165-166: the comments request of task t returned body
TaskFulfilled(t, body) ==
    [t EXCEPT !.state = "fulfilled", !.req = NoRequest, !.comments = getCommentsByPostId(body)]

\* TaskCaught with a promise that never settles
TaskCaughtNeverSettles(t) == [t EXCEPT !.req = NoRequest]

\* lines 167-170: the comments request of task t threw
TaskCaught(t) ==
    [t EXCEPT !.state = "fulfilled", !.req = NoRequest, !.comments = <<>>]

AllSettled(ts) == \A i \in 1..Len(ts) : ts[i].state = "fulfilled"

\* NextUser without the check of line 158
NextUserUnchecked(eu, k) == IF k <= Len(eu) THEN k ELSE 0

\* the first index j >= k of a user that line 158 does not skip, 0 if none
NextUser(eu, k) ==
    LET S == {j \in k..Len(eu) : validateUser(eu[j])}
    IN IF S = {} THEN 0 ELSE CHOOSE j \in S : \A i \in S : j <= i

\* Proceed with writeRecords called whether or not there is a row
ProceedAlwaysWrites(eu, k, recs, lg) ==
    LET j == NextUser(eu, k)
    IN /\ allRecords' = recs
       /\ tasks' = <<>>
       /\ log' = lg
       /\ UNCHANGED exitCode
       /\ IF j # 0
          THEN /\ ui' = j
               /\ pc' = "posts"
               /\ req' = NewRequest(PostsUrl(eu[j].id))
               /\ UNCHANGED written
          ELSE /\ ui' = 0
               /\ req' = NoRequest
               /\ pc' = "write"
               /\ written' = Append(written, recs)

\* The loop of line 157 from index k on, with allRecords = recs and the log lg,
\* up to the next await: the posts request of the next user that is not
\* skipped, or lines 192-197 after the last user.
Proceed(eu, k, recs, lg) ==
    LET j == NextUser(eu, k)
    IN /\ allRecords' = recs
       /\ tasks' = <<>>
       /\ IF j # 0
          THEN /\ ui' = j
               /\ pc' = "posts"
               /\ req' = NewRequest(PostsUrl(eu[j].id))
               /\ log' = lg
               /\ UNCHANGED <<written, exitCode>>
          ELSE /\ ui' = 0
               /\ req' = NoRequest
               /\ IF Len(recs) > 0
                  THEN /\ pc' = "write"
                       /\ written' = Append(written, recs)
                       /\ log' = lg
                       /\ UNCHANGED exitCode
                  ELSE /\ pc' = "done"
                       /\ exitCode' = <<0>>
                       /\ log' = lg \cup {<<"warn">>}
                       /\ UNCHANGED written

\* main() is called: process() runs up to the await of the users request
Main ==
    /\ pc = "init"
    /\ pc' = "users"
    /\ req' = NewRequest(UsersUrl)
    /\ UNCHANGED <<CONFIG, server, evenUsers, ui, tasks, doneOrder, allRecords,
                   written, exitCode, arg, ret, outcomes, last, log, runs>>

\* an attempt of the users or posts request fails and is retried (lines 41-45)
RequestRetry ==
    /\ pc \in {"users", "posts"}
    /\ req.phase = "inflight"
    /\ CanRetry(req)
    /\ req' = StartWait(req)
    /\ UNCHANGED <<CONFIG, server, pc, evenUsers, ui, tasks, doneOrder, allRecords,
                   written, exitCode, arg, ret, outcomes, last, log, runs>>

\* the timer of line 45 fires: line 46
RequestReissue ==
    /\ pc \in {"users", "posts"}
    /\ req.phase = "waiting"
    /\ req' = Reissue(req)
    /\ UNCHANGED <<CONFIG, server, pc, evenUsers, ui, tasks, doneOrder, allRecords,
                   written, exitCode, arg, ret, outcomes, last, log, runs>>

\* UsersFail with the failure taken for an empty list of users
UsersFailSkipped ==
    /\ pc = "users"
    /\ req.phase = "inflight"
    /\ ~CanRetry(req)
    /\ outcomes' = outcomes \cup {Ended(req, FALSE)}
    /\ last' = Outcome(req, FALSE)
    /\ evenUsers' = <<>>
    /\ Proceed(evenUsers', 1, <<>>, log)
    /\ UNCHANGED <<CONFIG, server, doneOrder, arg, ret, runs>>

\* the last attempt of the users request fails: lines 48-49, 198-200, 211-213
UsersFail ==
    /\ pc = "users"
    /\ req.phase = "inflight"
    /\ ~CanRetry(req)
    /\ outcomes' = outcomes \cup {Ended(req, FALSE)}
    /\ last' = Outcome(req, FALSE)
    /\ req' = NoRequest
    /\ pc' = "fatal"
    /\ exitCode' = <<1>>
    /\ log' = log \cup {<<"process">>, <<"main">>}
    /\ UNCHANGED <<CONFIG, server, evenUsers, ui, tasks, doneOrder, allRecords,
                   written, arg, ret, runs>>

\* the users request returns: lines 153-158, then the loop
UsersResponse ==
    /\ pc = "users"
    /\ req.phase = "inflight"
    /\ outcomes' = outcomes \cup {Ended(req, TRUE)}
    /\ last' = Outcome(req, TRUE)
    /\ evenUsers' = SelectSeq(server.users, IsEven)
    /\ Proceed(evenUsers', 1, <<>>, log)
    /\ UNCHANGED <<CONFIG, server, doneOrder, arg, ret, runs>>

\* PostsFail with the loop left (break) instead of continued
PostsFailBreak ==
    /\ pc = "posts"
    /\ req.phase = "inflight"
    /\ ~CanRetry(req)
    /\ outcomes' = outcomes \cup {Ended(req, FALSE)}
    /\ last' = Outcome(req, FALSE)
    /\ Proceed(evenUsers, Len(evenUsers) + 1, allRecords,
               log \cup {<<"user", evenUsers[ui].id>>})
    /\ UNCHANGED <<CONFIG, server, evenUsers, doneOrder, arg, ret, runs>>

\* the last attempt of the posts request of the current user fails:
\* lines 48-49, then the handler of lines 188-190, then the next user
PostsFail ==
    /\ pc = "posts"
    /\ req.phase = "inflight"
    /\ ~CanRetry(req)
    /\ outcomes' = outcomes \cup {Ended(req, FALSE)}
    /\ last' = Outcome(req, FALSE)
    /\ Proceed(evenUsers, ui + 1, allRecords, log \cup {<<"user", evenUsers[ui].id>>})
    /\ UNCHANGED <<CONFIG, server, evenUsers, doneOrder, arg, ret, runs>>

\* Promise.all of the tasks ts of the current user resolved: lines 173-187,
\* then the next user
Join(ts, lg) ==
    Proceed(evenUsers, ui + 1,
            allRecords \o RowsOfTasks(evenUsers[ui], ts, MergeOrder(ts), 1), lg)

\* the posts request of the current user returns: lines 98-104 and 161-172
PostsResponse ==
    /\ pc = "posts"
    /\ req.phase = "inflight"
    /\ outcomes' = outcomes \cup {Ended(req, TRUE)}
    /\ last' = Outcome(req, TRUE)
    /\ LET posts == getPostsByUserId(server.postsOf[evenUsers[ui].id])
           ts == [i \in 1..Len(posts) |-> NewTask(posts[i])]
       IN /\ doneOrder' = SelectSeq([i \in 1..Len(ts) |-> i], LAMBDA i : ts[i].state = "fulfilled")
          /\ IF AllSettled(ts)
             THEN Join(ts, log)
             ELSE /\ tasks' = ts
                  /\ pc' = "comments"
                  /\ req' = NoRequest
                  /\ UNCHANGED <<ui, allRecords, written, exitCode, log>>
    /\ UNCHANGED <<CONFIG, server, evenUsers, arg, ret, runs>>

\* Settle with the loop going on as soon as one task has settled
SettleFirstWins(i, t, lg) ==
    /\ doneOrder' = Append(doneOrder, i)
    /\ Join([tasks EXCEPT ![i] = t], lg)

\* task i settles as t: Promise.all resolves when it was the last one
Settle(i, t, lg) ==
    LET ts == [tasks EXCEPT ![i] = t]
    IN /\ doneOrder' = Append(doneOrder, i)
       /\ IF AllSettled(ts)
          THEN Join(ts, lg)
          ELSE /\ tasks' = ts
               /\ log' = lg
               /\ UNCHANGED <<pc, req, ui, allRecords, written, exitCode>>

\* an attempt of the comments request of task i fails and is retried
CommentsRetry(i) ==
    /\ pc = "comments"
    /\ tasks[i].req.phase = "inflight"
    /\ CanRetry(tasks[i].req)
    /\ tasks' = [tasks EXCEPT ![i].req = StartWait(@)]
    /\ UNCHANGED <<CONFIG, server, pc, req, evenUsers, ui, doneOrder, allRecords,
                   written, exitCode, arg, ret, outcomes, last, log, runs>>

\* the timer of task i fires
CommentsReissue(i) ==
    /\ pc = "comments"
    /\ tasks[i].req.phase = "waiting"
    /\ tasks' = [tasks EXCEPT ![i].req = Reissue(@)]
    /\ UNCHANGED <<CONFIG, server, pc, req, evenUsers, ui, doneOrder, allRecords,
                   written, exitCode, arg, ret, outcomes, last, log, runs>>

\* CommentsFail without the handler of lines 167-170: Promise.all rejects and
\* the handler of lines 188-190 runs
CommentsFailRejects(i) ==
    /\ pc = "comments"
    /\ tasks[i].req.phase = "inflight"
    /\ ~CanRetry(tasks[i].req)
    /\ outcomes' = outcomes \cup {Ended(tasks[i].req, FALSE)}
    /\ last' = Outcome(tasks[i].req, FALSE)
    /\ doneOrder' = Append(doneOrder, i)
    /\ Proceed(evenUsers, ui + 1, allRecords, log \cup {<<"user", evenUsers[ui].id>>})
    /\ UNCHANGED <<CONFIG, server, evenUsers, arg, ret, runs>>

\* the last attempt of the comments request of task i fails: lines 48-49, 167-170
CommentsFail(i) ==
    /\ pc = "comments"
    /\ tasks[i].req.phase = "inflight"
    /\ ~CanRetry(tasks[i].req)
    /\ outcomes' = outcomes \cup {Ended(tasks[i].req, FALSE)}
    /\ last' = Outcome(tasks[i].req, FALSE)
    /\ Settle(i, TaskCaught(tasks[i]), log \cup {<<"comments", tasks[i].post.id>>})
    /\ UNCHANGED <<CONFIG, server, evenUsers, arg, ret, runs>>

\* CommentsResponse with the wait of line 45 blocking: no response is
\* handled while a timer of a sibling task is pending
CommentsResponseAfterTimers(i) ==
    /\ pc = "comments"
    /\ tasks[i].req.phase = "inflight"
    /\ \A j \in 1..Len(tasks) : tasks[j].req.phase # "waiting"
    /\ outcomes' = outcomes \cup {Ended(tasks[i].req, TRUE)}
    /\ last' = Outcome(tasks[i].req, TRUE)
    /\ Settle(i, TaskFulfilled(tasks[i], server.commentsOf[tasks[i].post.id]), log)
    /\ UNCHANGED <<CONFIG, server, evenUsers, arg, ret, runs>>

\* the comments request of task i returns: lines 109-115, 166
CommentsResponse(i) ==
    /\ pc = "comments"
    /\ tasks[i].req.phase = "inflight"
    /\ outcomes' = outcomes \cup {Ended(tasks[i].req, TRUE)}
    /\ last' = Outcome(tasks[i].req, TRUE)
    /\ Settle(i, TaskFulfilled(tasks[i], server.commentsOf[tasks[i].post.id]), log)
    /\ UNCHANGED <<CONFIG, server, evenUsers, arg, ret, runs>>

\* csvWriter.writeRecords resolves: lines 137, 194, 210
WriteDone ==
    /\ pc = "write"
    /\ pc' = "done"
    /\ exitCode' = <<0>>
    /\ UNCHANGED <<CONFIG, server, req, evenUsers, ui, tasks, doneOrder, allRecords,
                   written, arg, ret, outcomes, last, log, runs>>

\* WriteFail with the error only logged by writeRecords, not thrown again
WriteFailSwallowed ==
    /\ pc = "write"
    /\ pc' = "done"
    /\ exitCode' = <<0>>
    /\ log' = log \cup {<<"csv">>}
    /\ UNCHANGED <<CONFIG, server, req, evenUsers, ui, tasks, doneOrder, allRecords,
                   written, arg, ret, outcomes, last, runs>>

\* csvWriter.writeRecords rejects: lines 138-141, 198-200, 211-213
WriteFail ==
    /\ pc = "write"
    /\ pc' = "fatal"
    /\ exitCode' = <<1>>
    /\ log' = log \cup {<<"csv">>, <<"process">>, <<"main">>}
    /\ UNCHANGED <<CONFIG, server, req, evenUsers, ui, tasks, doneOrder, allRecords,
                   written, arg, ret, outcomes, last, runs>>

Next ==
    \/ Main
    \/ RequestRetry
    \/ RequestReissue
    \/ UsersFail
    \/ UsersResponse
    \/ PostsFail
    \/ PostsResponse
    \/ \E i \in 1..Len(tasks) : CommentsRetry(i)
    \/ \E i \in 1..Len(tasks) : CommentsReissue(i)
    \/ \E i \in 1..Len(tasks) : CommentsFail(i)
    \/ \E i \in 1..Len(tasks) : CommentsResponse(i)
    \/ WriteDone
    \/ WriteFail

-----------------------------------------------------------------------------
(* Inputs: the configuration and the backing data. No two users, no two     *)
(* posts and no two comments of the backing data have the same id, so a    *)
(* row's ids name the entities it was built from. Dates are in             *)
(* milliseconds; posts 1 and 2 are dated (post 1 is the latest), the other *)
(* posts and the comments are not.                                         *)

User(id, name) == [id |-> id, name |-> name]
Post(id, title, date) == [id |-> id, title |-> title, date |-> date]
Comment(id, body, email, date) == [id |-> id, body |-> body, email |-> email, date |-> date]

Config(n, d, p, c) == [maxRetries |-> n, retryDelay |-> d, postsPerUser |-> p, commentsPerPost |-> c]

\* the sequences of at most n distinct elements of S
SeqsUpTo(S, n) ==
    UNION {{q \in [1..k -> S] : \A i, j \in 1..k : i # j => q[i] # q[j]} : k \in 0..n}

Ann == User(Num(2), Str("Ann"))
Dan == User(Num(4), Str("Dan"))
Bob == User(Num(3), Str("Bob"))
Eve == User(Num(6), Str(""))
Zed == User(Num(0), Str("Zed"))

UserPool == {Ann, Dan, Bob, Eve, Zed}

P1 == Post(Num(1), Str("p1"), Num(20))
P2 == Post(Num(2), Str("p2"), Num(10))
P3 == Post(Num(3), Str("p3"), Undefined)
P4 == Post(Num(4), Str(""), Undefined)
P5 == Post(Num(5), Str("p5"), Undefined)
P6 == Post(Num(6), Str("p6"), Undefined)
P7 == Post(Num(7), Str("p7"), Undefined)

C1a == Comment(Num(11), Str("b11"), Str("e11"), Undefined)
C1b == Comment(Num(12), Str("b12"), Undefined, Undefined)
C1c == Comment(Num(13), Str("b13"), Str("e13"), Undefined)
C2a == Comment(Num(21), Str("b21"), Str("e21"), Undefined)
C2b == Comment(Num(22), Str("b22"), Str("e22"), Undefined)
C3a == Comment(Num(31), Str("b31"), Str("e31"), Undefined)
C4a == Comment(Num(41), Str("b41"), Str("e41"), Undefined)
C5a == Comment(Num(51), Str("b51"), Str("e51"), Undefined)
C7a == Comment(Num(71), Str("b71"), Str("e71"), Undefined)

UserIds == {u.id : u \in UserPool}
PostIds == {Num(k) : k \in 1..7}

\* the posts and comments the backing data holds where an input does not vary them
PostsTable ==
    [id \in UserIds |->
        CASE id = Num(2) -> <<P1, P2>>
          [] id = Num(4) -> <<P3, P4>>
          [] id = Num(3) -> <<P5>>
          [] id = Num(6) -> <<P6>>
          [] OTHER -> <<P7>>]

CommentsTable ==
    [id \in PostIds |->
        CASE id = Num(1) -> <<C1a, C1b>>
          [] id = Num(2) -> <<C2a, C2b>>
          [] id = Num(3) -> <<C3a>>
          [] id = Num(4) -> <<C4a>>
          [] id = Num(5) -> <<C5a>>
          [] id = Num(7) -> <<C7a>>
          [] OTHER -> <<>>]

\* Spec, the users vary: any users body, any maxRetries
UsersInputs ==
    {[config |-> Config(n, 1000, MaxLimit, MaxLimit),
      server |-> [users |-> us, postsOf |-> PostsTable, commentsOf |-> CommentsTable]] :
        n \in 0..MaxRetries, us \in SeqsUpTo(UserPool, MaxUsers)}

\* Spec, the posts and comments of one user and the limits vary
PostsInputs ==
    {[config |-> Config(0, 1000, p, c),
      server |-> [users |-> <<Eve, Ann>>,
                  postsOf |-> [PostsTable EXCEPT ![Num(2)] = ps],
                  commentsOf |-> [CommentsTable EXCEPT ![Num(1)] = cs]]] :
        p \in 0..MaxLimit, c \in 0..MaxLimit,
        ps \in SeqsUpTo({P1, P2, P4}, MaxPosts),
        cs \in SeqsUpTo({C1a, C1b, C1c}, MaxComments)}

Inputs == UsersInputs \cup PostsInputs

Start(inputs) ==
    /\ \E inp \in inputs : CONFIG = inp.config /\ server = inp.server
    /\ pc = "init"
    /\ req = NoRequest
    /\ evenUsers = <<>>
    /\ ui = 0
    /\ tasks = <<>>
    /\ doneOrder = <<>>
    /\ allRecords = <<>>
    /\ written = <<>>
    /\ exitCode = <<>>
    /\ arg = <<>>
    /\ ret = <<>>
    /\ outcomes = {}
    /\ last = Outcome(NoRequest, TRUE)
    /\ log = {}
    /\ runs = <<>>

Init == Start(Inputs)

Spec == Init /\ [][Next]_vars

\* LiveSpec: Spec with every callback that is due eventually run. An attempt
\* ends by its response, its error or the timeout of line 31; a timer of line
\* 45 fires; writeRecords resolves or rejects.
LiveSpec == Init /\ [][Next]_vars /\ WF_vars(Next)

\* RetrySpec: one user with one post with one comment, any maxRetries and delay
RetryInputs ==
    {[config |-> Config(n, d, 1, 1),
      server |-> [users |-> <<Ann>>,
                  postsOf |-> [PostsTable EXCEPT ![Num(2)] = <<P1>>],
                  commentsOf |-> [CommentsTable EXCEPT ![Num(1)] = <<C1a>>]]] :
        n \in 0..RetryMaxRetries, d \in {1, 250, 1000}}

RetryInit == Start(RetryInputs)

RetrySpec == RetryInit /\ [][Next]_vars

-----------------------------------------------------------------------------
(* TwiceSpec: the program is run, and when the run has ended it is run     *)
(* again on the same backing data with the same CONFIG. A new process      *)
(* starts from the state after construction; what the ended run leaves     *)
(* behind is remembered in runs: its rows, the requests that failed for    *)
(* good in it, and the order in which the comment fetches of its last      *)
(* user settled.                                                           *)

EndOfRun ==
    [rows |-> allRecords,
     failed |-> {o.url : o \in {x \in outcomes : ~x.ok}},
     order |-> doneOrder]

\* node index.js once more (lines 217-219), after the run before it ended
Rerun ==
    /\ pc \in {"done", "fatal"}
    /\ Len(runs) < MaxReruns
    /\ runs' = Append(runs, EndOfRun)
    /\ pc' = "init"
    /\ req' = NoRequest
    /\ evenUsers' = <<>>
    /\ ui' = 0
    /\ tasks' = <<>>
    /\ doneOrder' = <<>>
    /\ allRecords' = <<>>
    /\ written' = <<>>
    /\ exitCode' = <<>>
    /\ outcomes' = {}
    /\ last' = Outcome(NoRequest, TRUE)
    /\ log' = {}
    /\ UNCHANGED <<CONFIG, server, arg, ret>>

\* Ann (two posts of two comments each) alone or followed by Dan, one retry
TwiceInputs ==
    {[config |-> Config(1, 1000, 2, 2),
      server |-> [users |-> us, postsOf |-> PostsTable, commentsOf |-> CommentsTable]] :
        us \in {<<Ann>>, <<Ann, Dan>>}}

TwiceInit == Start(TwiceInputs)

TwiceNext == Next \/ Rerun

TwiceSpec == TwiceInit /\ [][TwiceNext]_vars

-----------------------------------------------------------------------------
(* ValidateSpec: one call of validateUser, validatePost or validateComment *)
(* on an object whose fields hold any kind of JSON value or are absent;    *)
(* or one run of the program on data with a user whose id is 0.            *)

\* what a field can hold: nothing, null, a boolean, a number, a string
FieldValues ==
    {Undefined, Null, Bool(FALSE), Bool(TRUE), Num(0), Num(1), Num(2), Str(""), Str("a")}

UserArgs == [{"id", "name"} -> FieldValues]
PostArgs == [{"id", "title"} -> FieldValues]
CommentArgs == [{"id", "body", "email"} -> FieldValues]

\* Zed (id 0, a post with a comment) before or after Ann, or alone
ZeroInputs ==
    {[config |-> Config(1, 1000, 2, 2),
      server |-> [users |-> us, postsOf |-> PostsTable, commentsOf |-> CommentsTable]] :
        us \in {<<Zed>>, <<Zed, Ann>>, <<Ann, Zed>>}}

ValidateInit ==
    \/ Start(ZeroInputs)
    \/ /\ CONFIG = Config(0, 1000, 0, 0)
       /\ server = [users |-> <<>>, postsOf |-> PostsTable, commentsOf |-> CommentsTable]
       /\ pc = "call"
       /\ arg \in UserArgs \cup PostArgs \cup CommentArgs
       /\ ret = <<>>
       /\ req = NoRequest
       /\ evenUsers = <<>>
       /\ ui = 0
       /\ tasks = <<>>
       /\ doneOrder = <<>>
       /\ allRecords = <<>>
       /\ written = <<>>
       /\ exitCode = <<>>
       /\ outcomes = {}
       /\ last = Outcome(NoRequest, TRUE)
       /\ log = {}
       /\ runs = <<>>

CallValidateUser ==
    /\ pc = "call"
    /\ arg \in UserArgs
    /\ ret' = <<validateUser(arg)>>
    /\ pc' = "validateUser returned"
    /\ UNCHANGED <<CONFIG, server, req, evenUsers, ui, tasks, doneOrder, allRecords,
                   written, exitCode, arg, outcomes, last, log, runs>>

CallValidatePost ==
    /\ pc = "call"
    /\ arg \in PostArgs
    /\ ret' = <<validatePost(arg)>>
    /\ pc' = "validatePost returned"
    /\ UNCHANGED <<CONFIG, server, req, evenUsers, ui, tasks, doneOrder, allRecords,
                   written, exitCode, arg, outcomes, last, log, runs>>

CallValidateComment ==
    /\ pc = "call"
    /\ arg \in CommentArgs
    /\ ret' = <<validateComment(arg)>>
    /\ pc' = "validateComment returned"
    /\ UNCHANGED <<CONFIG, server, req, evenUsers, ui, tasks, doneOrder, allRecords,
                   written, exitCode, arg, outcomes, last, log, runs>>

ValidateNext ==
    \/ CallValidateUser
    \/ CallValidatePost
    \/ CallValidateComment
    \/ Next

ValidateSpec == ValidateInit /\ [][ValidateNext]_vars

-----------------------------------------------------------------------------
(* FnSpec: one call of getPostsByUserId or getCommentsByPostId on a body    *)
(* (the request having returned it), for bodies that mix dated and undated  *)
(* items and for every limit.                                               *)

\* posts with ids 1..SortMaxLen, each undated or dated 10 or 20 (milliseconds)
SortPool ==
    {Post(Num(k), Str("t"), d) : k \in 1..SortMaxLen, d \in {Undefined, Num(10), Num(20)}}

DistinctIds(s) == \A i, j \in 1..Len(s) : i # j => s[i].id # s[j].id

SortBodies == {s \in SeqsUpTo(SortPool, SortMaxLen) : DistinctIds(s)}

FnInit ==
    /\ \E l \in 0..SortMaxLen : CONFIG = Config(0, 1000, l, l)
    /\ server = [users |-> <<>>, postsOf |-> PostsTable, commentsOf |-> CommentsTable]
    /\ pc = "call"
    /\ arg \in SortBodies
    /\ ret = <<>>
    /\ req = NoRequest
    /\ evenUsers = <<>>
    /\ ui = 0
    /\ tasks = <<>>
    /\ doneOrder = <<>>
    /\ allRecords = <<>>
    /\ written = <<>>
    /\ exitCode = <<>>
    /\ outcomes = {}
    /\ last = Outcome(NoRequest, TRUE)
    /\ log = {}
    /\ runs = <<>>

CallGetPosts ==
    /\ pc = "call"
    /\ ret' = getPostsByUserId(arg)
    /\ pc' = "posts returned"
    /\ UNCHANGED <<CONFIG, server, req, evenUsers, ui, tasks, doneOrder, allRecords,
                   written, exitCode, arg, outcomes, last, log, runs>>

CallGetComments ==
    /\ pc = "call"
    /\ ret' = getCommentsByPostId(arg)
    /\ pc' = "comments returned"
    /\ UNCHANGED <<CONFIG, server, req, evenUsers, ui, tasks, doneOrder, allRecords,
                   written, exitCode, arg, outcomes, last, log, runs>>

FnNext == CallGetPosts \/ CallGetComments

FnSpec == FnInit /\ [][FnNext]_vars

-----------------------------------------------------------------------------
(* Properties                                                               *)

\* the delays retryDelay, retryDelay*2, ..., retryDelay*2^(k-1)
Doubling(k) == [i \in 1..k |-> CONFIG.retryDelay * Pow2(i - 1)]

\* the requests awaited now: the coordinator's and the tasks'
Pending == {r \in {req} \cup {tasks[i].req : i \in 1..Len(tasks)} : r.phase # "none"}

\* C1: a request that has just raised its terminal error made exactly maxRetries + 1
\* attempts and waited retryDelay, retryDelay*2, ..., retryDelay*2^(maxRetries-1)
\* between them, in that order (no wait when maxRetries = 0); and no pending
\* request has made more attempts than that, or waited anything else.
C1_RetrySchedule ==
    /\ ~last.ok => /\ last.attempts = CONFIG.maxRetries + 1
                    /\ last.waits = Doubling(CONFIG.maxRetries)
    /\ \A r \in Pending :
         /\ r.attempts <= CONFIG.maxRetries + 1
         /\ r.waits = Doubling(Len(r.waits))
         /\ Len(r.waits) = IF r.phase = "waiting" THEN r.attempts ELSE r.attempts - 1

\* a users request failed for good under maxRetries = 3 after waits d, 2d, 4d
C1_Witness ==
    /\ CONFIG.maxRetries = 3
    /\ CONFIG.retryDelay = 250
    /\ pc = "fatal"
    /\ last.url = UsersUrl /\ ~last.ok
    /\ last.attempts = 4 /\ last.waits = <<250, 500, 1000>>

\* a logical request for url raised its terminal error
Failed(url) == \E o \in outcomes : o.url = url /\ ~o.ok

\* a logical request for url returned a body
Returned(url) == \E o \in outcomes : o.url = url /\ o.ok

\* the urls requested so far
IssuedUrls == {o.url : o \in outcomes} \cup {r.url : r \in Pending}

Elems(s) == {s[i] : i \in 1..Len(s)}

Terminated == pc \in {"done", "fatal"}

\* C2: when the users request has failed for good, the run is in the fatal
\* state with exit status 1, no other url was ever requested, no row was
\* computed and writeRecords was not called.
C2_UsersFailureIsFatal ==
    Failed(UsersUrl) =>
        /\ pc = "fatal"
        /\ exitCode = <<1>>
        /\ IssuedUrls = {UsersUrl}
        /\ allRecords = <<>>
        /\ written = <<>>

\* the users request failed after a retry although the data holds a user
\* whose posts would have been fetched
C2_Witness ==
    /\ last.url = UsersUrl /\ ~last.ok /\ last.attempts = 2
    /\ \E u \in Elems(server.users) : IsEven(u) /\ validateUser(u)
    /\ exitCode = <<1>>

\* the users whose loop iteration has ended
Processed ==
    IF pc \in {"posts", "comments"} THEN {evenUsers[j] : j \in 1..(ui - 1)}
    ELSE IF Returned(UsersUrl) THEN Elems(evenUsers)
    ELSE {}

RowsOfUser(u) == SelectSeq(allRecords, LAMBDA r : r.userId = u.id)

RowsOfUserPost(u, p) == SelectSeq(allRecords, LAMBDA r : r.userId = u.id /\ r.postId = p.id)

\* the rows the data holds for post p of user u: one per valid comment among
\* the first commentsPerPost sorted comments, if the post is valid
DataRowsOfPost(u, p) ==
    LET cs == getCommentsByPostId(server.commentsOf[p.id])
        ok == SelectSeq(cs, validateComment)
    IN IF validatePost(p) THEN [i \in 1..Len(ok) |-> Record(u, p, ok[i])] ELSE <<>>

RECURSIVE Concat(_)
Concat(ss) == IF ss = <<>> THEN <<>> ELSE Head(ss) \o Concat(Tail(ss))

\* the rows user u is due, given which of its requests failed for good
DueRows(u) ==
    LET ps == getPostsByUserId(server.postsOf[u.id])
    IN IF ~validateUser(u) \/ Failed(PostsUrl(u.id)) THEN <<>>
       ELSE Concat([i \in 1..Len(ps) |->
                      IF Failed(CommentsUrl(ps[i].id)) THEN <<>> ELSE DataRowsOfPost(u, ps[i])])

\* the part of C3 that does not speak of the exit status
C3_Rows ==
    \A u \in Processed :
        /\ Failed(PostsUrl(u.id)) => RowsOfUser(u) = <<>>
        /\ ~Failed(PostsUrl(u.id)) => RowsOfUser(u) = DueRows(u)
        /\ validateUser(u) => PostsUrl(u.id) \in IssuedUrls

SomePostsFailed == \E u \in Elems(evenUsers) : Failed(PostsUrl(u.id))

\* C3 as claimed: a user whose posts request failed for good has no row, every
\* other user has exactly the rows it is due, every valid even user had its
\* posts requested, and a run in which a posts request failed ends with exit
\* status 0.
C3_AsClaimed ==
    /\ C3_Rows
    /\ (Terminated /\ SomePostsFailed) => exitCode = <<0>>

\* C3 as amended: the same, but the run ends with exit status 0 unless
\* writeRecords failed, and then it ends with exit status 1.
C3_PostsFailureSkipsUser ==
    /\ C3_Rows
    /\ (Terminated /\ SomePostsFailed) =>
          exitCode = IF <<"csv">> \in log THEN <<1>> ELSE <<0>>

\* the posts request of Ann failed for good, Dan after her has its rows, and
\* the run ended cleanly
C3_Witness ==
    /\ server.users = <<Ann, Dan>>
    /\ Failed(PostsUrl(Ann.id))
    /\ RowsOfUser(Ann) = <<>>
    /\ Len(RowsOfUser(Dan)) > 0
    /\ pc = "done"
    /\ exitCode = <<0>>

\* C4: a post whose comments request failed for good has no row, a sibling
\* post whose comments request returned has one row per valid comment of the
\* first commentsPerPost sorted comments, whatever the order in which the
\* requests ended; the handler of a user runs only for a failed posts request
\* and the top-level handlers only for a failed users request or a failed
\* writeRecords.
C4_CommentsFailureIsolated ==
    /\ \A u \in Processed :
         Returned(PostsUrl(u.id)) =>
            \A p \in Elems(getPostsByUserId(server.postsOf[u.id])) :
                /\ Failed(CommentsUrl(p.id)) => RowsOfUserPost(u, p) = <<>>
                /\ Returned(CommentsUrl(p.id)) => RowsOfUserPost(u, p) = DataRowsOfPost(u, p)
                /\ validatePost(p) => CommentsUrl(p.id) \in IssuedUrls
    /\ \A u \in Elems(evenUsers) : <<"user", u.id>> \in log => Failed(PostsUrl(u.id))
    /\ <<"process">> \in log => Failed(UsersUrl) \/ <<"csv">> \in log

\* the comments request of Ann's post 2 (her second task) failed first, the
\* one of post 1 returned after it, and post 1 has its row
C4_Witness ==
    /\ Failed(CommentsUrl(P2.id))
    /\ Returned(CommentsUrl(P1.id))
    /\ doneOrder = <<2, 1>>
    /\ Len(RowsOfUserPost(Ann, P1)) > 0
    /\ RowsOfUserPost(Ann, P2) = <<>>
    /\ pc = "done"

\* every post and every comment of the backing data
AllPosts == UNION {Elems(server.postsOf[id]) : id \in DOMAIN server.postsOf}
AllComments == UNION {Elems(server.commentsOf[id]) : id \in DOMAIN server.commentsOf}

\* C5: every row carries the fields of a user, of a post and of a comment of
\* the data that each pass validation, so all its seven fields are truthy; and
\* no row carries the id of a user or of a post that fails validation.
C5_RowsAreValidated ==
    allRecords # <<>> =>
        LET users == {u \in Elems(server.users) : validateUser(u)}
            posts == {p \in AllPosts : validatePost(p)}
            comments == {c \in AllComments : validateComment(c)}
            badUsers == {u.id : u \in Elems(server.users) \ users}
            badPosts == {p.id : p \in AllPosts \ posts}
        IN \A i \in 1..Len(allRecords) :
             LET r == allRecords[i]
             IN /\ \E u \in users : r.userId = u.id /\ r.userName = u.name
                /\ \E p \in posts : r.postId = p.id /\ r.postTitle = p.title
                /\ \E c \in comments :
                     r.commentId = c.id /\ r.commentBody = c.body /\ r.commentEmail = c.email
                /\ \A f \in DOMAIN r : Truthy(r[f])
                /\ r.userId \notin badUsers
                /\ r.postId \notin badPosts

\* Dan's post 4 has no title and a valid comment; its comments were not
\* requested, and the rows of Dan's post 3 were written
C5_Witness ==
    /\ server.users = <<Dan>>
    /\ pc = "done"
    /\ P4 \in Elems(server.postsOf[Dan.id])
    /\ CommentsUrl(P4.id) \notin IssuedUrls
    /\ Len(RowsOfUserPost(Dan, P3)) > 0
    /\ written = <<allRecords>>

\* C6: no row has an odd userId, and a user with an odd id has no row.
C6_OnlyEvenUsers ==
    /\ \A i \in 1..Len(allRecords) : ToNumber(allRecords[i].userId) % 2 = 0
    /\ \A u \in Elems(server.users) :
         (u.id.t = "number" /\ u.id.v % 2 = 1) =>
            /\ RowsOfUser(u) = <<>>
            /\ u \notin Elems(evenUsers)

\* Bob (id 3), who has a valid post with a valid comment, came before Ann,
\* whose rows were written
C6_Witness ==
    /\ server.users = <<Bob, Ann>>
    /\ Len(server.postsOf[Bob.id]) > 0
    /\ pc = "done"
    /\ Len(RowsOfUser(Ann)) > 0
    /\ RowsOfUser(Bob) = <<>>

\* the index of the first item of s with this id (0 if none)
IndexOfId(s, id) ==
    LET S == {i \in 1..Len(s) : s[i].id = id}
    IN IF S = {} THEN 0 ELSE CHOOSE i \in S : \A j \in S : i <= j

\* where a row stands: its user in the users body, its post in what
\* getPostsByUserId returns for the user, its comment in what
\* getCommentsByPostId returns for the post
RowKey(r) ==
    LET u == IndexOfId(server.users, r.userId)
        ps == getPostsByUserId(server.postsOf[r.userId])
        cs == getCommentsByPostId(server.commentsOf[r.postId])
    IN <<u, IndexOfId(ps, r.postId), IndexOfId(cs, r.commentId)>>

LexLess(a, b) ==
    \/ a[1] < b[1]
    \/ a[1] = b[1] /\ a[2] < b[2]
    \/ a[1] = b[1] /\ a[2] = b[2] /\ a[3] < b[3]

\* C7: the rows stand in the order of the users, then of the posts as
\* getPostsByUserId returned them, then of the comments as
\* getCommentsByPostId returned them, whatever order the requests ended in.
C7_OutputOrder ==
    LET key == [i \in 1..Len(allRecords) |-> RowKey(allRecords[i])]
    IN /\ \A i \in 1..Len(allRecords) : key[i][1] > 0 /\ key[i][2] > 0 /\ key[i][3] > 0
       /\ \A i \in 1..(Len(allRecords) - 1) : LexLess(key[i], key[i + 1])

\* the comments of Ann's second task returned before those of her first, and
\* the rows of the first task's post stand before those of the second's
C7_Witness ==
    /\ server.users = <<Ann, Dan>>
    /\ pc = "posts"
    /\ ui = 2
    /\ doneOrder = <<2, 1>>
    /\ Len(allRecords) >= 2
    /\ allRecords[1].postId = P1.id
    /\ allRecords[Len(allRecords)].postId = P2.id

\* the permutations of 1..n
Perms(n) == {f \in [1..n -> 1..n] : \A i, j \in 1..n : i # j => f[i] # f[j]}

\* s in descending order of date (byDate) or of id, items that tie in the order
\* they have in s
StableDesc(s, byDate) ==
    LET Key(x) == IF byDate THEN ToNumber(x.date) ELSE ToNumber(x.id)
        f == CHOOSE g \in Perms(Len(s)) :
                \A i, j \in 1..Len(s) :
                    i < j => \/ Key(s[g[i]]) > Key(s[g[j]])
                             \/ Key(s[g[i]]) = Key(s[g[j]]) /\ g[i] < g[j]
    IN [i \in 1..Len(s) |-> s[f[i]]]

HasDate(x) == x.date.t = "number"
AllDated(s) == \A i \in 1..Len(s) : HasDate(s[i])
NoneDated(s) == \A i \in 1..Len(s) : ~HasDate(s[i])

\* the order C8 claims for the body s
ClaimedSort(s) == StableDesc(s, AllDated(s))

IsPrefix(a, b) == Len(a) <= Len(b) /\ a = SubSeq(b, 1, Len(a))

\* C8 as claimed: what getPostsByUserId and getCommentsByPostId return starts
\* the body in descending order of date if every item has a date, and else in
\* descending order of id, items that tie in the order of the body.
C8_AsClaimed ==
    pc # "call" => IsPrefix(ret, ClaimedSort(arg))

\* what holds of the code: the claimed order for a body whose items all have
\* a date or all have none
C8_UnmixedBodies ==
    (pc # "call" /\ (AllDated(arg) \/ NoneDated(arg))) => IsPrefix(ret, ClaimedSort(arg))

\* C9: getPostsByUserId returns the first min(postsPerUser, length) items of
\* the sorted body and getCommentsByPostId the first min(commentsPerPost,
\* length); so the comments of at most postsPerUser posts of a user are
\* requested, a (user, post) pair has at most commentsPerPost rows, and a
\* limit of 0 leaves no row.
C9_Limits ==
    /\ pc = "comments" =>
         LET body == server.postsOf[evenUsers[ui].id]
         IN /\ [i \in 1..Len(tasks) |-> tasks[i].post]
                  = SubSeq(Sort(body), 1, Min(CONFIG.postsPerUser, Len(body)))
            /\ \A i \in 1..Len(tasks) :
                  LET cs == server.commentsOf[tasks[i].post.id]
                  IN Returned(CommentsUrl(tasks[i].post.id)) =>
                        tasks[i].comments
                          = SubSeq(Sort(cs), 1, Min(CONFIG.commentsPerPost, Len(cs)))
    /\ Len(tasks) <= CONFIG.postsPerUser
    /\ \A u \in Elems(server.users) :
         Cardinality({p \in Elems(server.postsOf[u.id]) : CommentsUrl(p.id) \in IssuedUrls})
            <= CONFIG.postsPerUser
    /\ \A i \in 1..Len(allRecords) :
         Cardinality({j \in 1..Len(allRecords) :
                        /\ allRecords[j].userId = allRecords[i].userId
                        /\ allRecords[j].postId = allRecords[i].postId})
            <= CONFIG.commentsPerPost
    /\ (CONFIG.postsPerUser = 0 \/ CONFIG.commentsPerPost = 0) => allRecords = <<>>

\* with both limits 1, Ann's two posts and post 1's two comments gave one row,
\* that of the comment with the greatest id of the latest post
C9_Witness ==
    /\ CONFIG.postsPerUser = 1
    /\ CONFIG.commentsPerPost = 1
    /\ server.postsOf[Ann.id] = <<P2, P1>>
    /\ server.commentsOf[P1.id] = <<C1a, C1c>>
    /\ pc = "done"
    /\ Len(allRecords) = 1
    /\ allRecords[1].postId = P1.id
    /\ allRecords[1].commentId = C1c.id

\* C10 as claimed: the run ends with exit status 1 only if the users request
\* failed for good, and ends with exit status 0 after any other failure.
C10_AsClaimed ==
    /\ exitCode = <<1>> => Failed(UsersUrl)
    /\ (Terminated /\ ~Failed(UsersUrl)) => exitCode = <<0>>

\* the state part of C10 as amended
C10_State ==
    /\ exitCode = <<1>> <=> pc = "fatal"
    /\ pc = "fatal" <=> (Failed(UsersUrl) \/ <<"csv">> \in log)
    /\ <<"csv">> \in log => written = <<allRecords>> /\ Len(allRecords) > 0
    /\ pc = "done" => exitCode = <<0>>
    /\ \A u \in Elems(evenUsers) : Failed(PostsUrl(u.id)) => <<"user", u.id>> \in log
    /\ \A p \in AllPosts : Failed(CommentsUrl(p.id)) => <<"comments", p.id>> \in log

\* C10 as amended: a failed posts or comments request is caught and logged
\* and never ends the run; the run ends in the fatal state, with exit status
\* 1, exactly when the users request or writeRecords failed, and with exit
\* status 0 otherwise; and no step ever changes a row that is already in
\* allRecords.
C10_FatalOnlyAtTopLevel ==
    [][C10_State' /\ IsPrefix(allRecords, allRecords')]_vars

\* the posts request of Ann failed and was skipped, Dan's rows were computed,
\* and the run ended with exit status 1 because writeRecords failed
C10_Witness ==
    /\ server.users = <<Ann, Dan>>
    /\ <<"user", Ann.id>> \in log
    /\ ~Failed(UsersUrl)
    /\ <<"csv">> \in log
    /\ written = <<allRecords>>
    /\ exitCode = <<1>>

\* C11: writeRecords is called at most once and only with a sequence that is
\* not empty; the warning is logged exactly when every user has been processed
\* and allRecords is empty, and then writeRecords was not called and the run
\* has ended in the state done with exit status 0, not in the fatal state.
C11_EmptyOutputWarns ==
    /\ Len(written) <= 1
    /\ \A i \in 1..Len(written) : Len(written[i]) > 0
    /\ pc = "write" => written = <<allRecords>>
    /\ <<"warn">> \in log <=>
          (Returned(UsersUrl) /\ pc \notin {"posts", "comments"} /\ allRecords = <<>>)
    /\ <<"warn">> \in log =>
          /\ written = <<>>
          /\ pc = "done"
          /\ exitCode = <<0>>
          /\ log \cap {<<"csv">>, <<"process">>, <<"main">>} = {}

\* Ann's posts request failed for good, no row was computed, and the run
\* ended with the warning and without a call of writeRecords
C11_Witness ==
    /\ server.users = <<Ann>>
    /\ Failed(PostsUrl(Ann.id))
    /\ allRecords = <<>>
    /\ <<"warn">> \in log
    /\ written = <<>>
    /\ exitCode = <<0>>
\* the requests that failed for good in the current run
FailedUrls == {o.url : o \in {x \in outcomes : ~x.ok}}

\* C12 as claimed: a run that has ended has the rows, in the order, that every
\* earlier run on the same backing data ended with.
C12_AsClaimed ==
    pc \in {"done", "fatal"} =>
        \A k \in 1..Len(runs) : allRecords = runs[k].rows

\* C12 as amended: a run that has ended has the rows, in the order, of every
\* earlier run on the same backing data in which the same requests failed for
\* good (in particular of every earlier run without such a failure, if it has
\* none itself), whatever the order in which the comment fetches of either
\* run settled and however many attempts were retried.
C12_SameFailuresSameOutput ==
    pc \in {"done", "fatal"} =>
        \A k \in 1..Len(runs) :
            FailedUrls = runs[k].failed => allRecords = runs[k].rows

\* the second run on Ann's data has ended; no request failed for good in either run; the
\* comment fetches settled in the order 1, 2 in the first run and 2, 1 in the
\* second; both runs have the same rows, those of both posts
C12_Witness ==
    /\ server.users = <<Ann>>
    /\ Len(runs) = 1
    /\ pc = "done"
    /\ runs[1].failed = {} /\ FailedUrls = {}
    /\ runs[1].order = <<1, 2>> /\ doneOrder = <<2, 1>>
    /\ allRecords = runs[1].rows
    /\ Len(RowsOfUserPost(Ann, P1)) > 0
    /\ Len(RowsOfUserPost(Ann, P2)) > 0
\* C13: every row carries the id and name of a user of the users body, the id
\* and title of a post that getPostsByUserId returned for that user, and the
\* id, body and email of a comment that getCommentsByPostId returned for that
\* post; and before the join every task holds its own post, one of the posts
\* returned for the current user, and only comments returned for that post.
C13_RowsArePaired ==
    /\ \A i \in 1..Len(allRecords) :
         LET r == allRecords[i]
         IN \E u \in Elems(server.users) :
              /\ r.userId = u.id /\ r.userName = u.name
              /\ \E p \in Elems(getPostsByUserId(server.postsOf[u.id])) :
                   /\ r.postId = p.id /\ r.postTitle = p.title
                   /\ \E c \in Elems(getCommentsByPostId(server.commentsOf[p.id])) :
                        /\ r.commentId = c.id
                        /\ r.commentBody = c.body
                        /\ r.commentEmail = c.email
    /\ pc = "comments" =>
         /\ [i \in 1..Len(tasks) |-> tasks[i].post]
               = getPostsByUserId(server.postsOf[evenUsers[ui].id])
         /\ \A i \in 1..Len(tasks) :
               Elems(tasks[i].comments) \subseteq Elems(server.commentsOf[tasks[i].post.id])

\* the comments of Ann's second task (post 2) returned before those of her
\* first (post 1); comment 11 has its row with post 1, comment 22 with post 2
C13_Witness ==
    /\ server.users = <<Ann>>
    /\ pc = "write"
    /\ doneOrder = <<2, 1>>
    /\ \E i \in 1..Len(allRecords) :
          allRecords[i].postId = P1.id /\ allRecords[i].commentId = C1a.id
    /\ \E i \in 1..Len(allRecords) :
          allRecords[i].postId = P2.id /\ allRecords[i].commentId = C2b.id
\* the triples C14 speaks of: a valid user with an even id, a valid post among
\* the first postsPerUser sorted posts of the user, a valid comment among the
\* first commentsPerPost sorted comments of the post
Triples ==
    {t \in Elems(server.users) \X AllPosts \X AllComments :
        /\ IsEven(t[1]) /\ validateUser(t[1])
        /\ t[2] \in Elems(getPostsByUserId(server.postsOf[t[1].id])) /\ validatePost(t[2])
        /\ t[3] \in Elems(getCommentsByPostId(server.commentsOf[t[2].id]))
        /\ validateComment(t[3])}

\* C14: when the loop over the users has ended and no request failed for good
\* (attempts that failed and were retried are allowed), every triple has
\* exactly one row, every row is the row of a triple, and there are as many
\* rows as triples; so an invalid comment has no row and the valid comments of
\* the same post have theirs.
C14_ExactlyTheValidTriples ==
    (pc \in {"write", "done", "fatal"} /\ Returned(UsersUrl) /\ FailedUrls = {}) =>
        /\ \A t \in Triples :
             Cardinality({i \in 1..Len(allRecords) :
                            allRecords[i] = Record(t[1], t[2], t[3])}) = 1
        /\ \A i \in 1..Len(allRecords) :
             \E t \in Triples : allRecords[i] = Record(t[1], t[2], t[3])
        /\ Len(allRecords) = Cardinality(Triples)

\* under maxRetries = 1 the run of Ann's data ended without a request that
\* failed for good, the last request having been retried once; post 1 has the
\* row of comment 11 and none of comment 12, which has no email, and there
\* are three rows in all
C14_Witness ==
    /\ server.users = <<Ann>>
    /\ server.commentsOf[P1.id] = <<C1a, C1b>>
    /\ CONFIG.maxRetries = 1
    /\ pc = "done"
    /\ FailedUrls = {}
    /\ last.ok /\ last.attempts = 2
    /\ Len(allRecords) = 3
    /\ \E i \in 1..3 : allRecords[i].postId = P1.id /\ allRecords[i].commentId = C1a.id
    /\ \A i \in 1..3 : allRecords[i].commentId # C1b.id
\* what C15 counts as a missing field: absent, null, "", 0, false
Falsy(x) == x \in {Undefined, Null, Str(""), Num(0), Bool(FALSE)}

\* what C15 claims a validation returns for entity with these required fields
ClaimedValid(entity, required) == ~(\E f \in required : Falsy(entity[f]))

\* C15: validateUser returns false exactly when id or name is missing,
\* validatePost when id or title is, validateComment when id, body or email
\* is, a field being missing when it is absent, null, "", 0 or false; and a
\* user with id 0 is in evenUsers once the users are filtered, its posts are
\* never requested and it has no row.
C15_LooseTruthiness ==
    /\ pc = "validateUser returned" => ret = <<ClaimedValid(arg, {"id", "name"})>>
    /\ pc = "validatePost returned" => ret = <<ClaimedValid(arg, {"id", "title"})>>
    /\ pc = "validateComment returned" =>
          ret = <<ClaimedValid(arg, {"id", "body", "email"})>>
    /\ \A u \in Elems(server.users) :
          u.id = Num(0) =>
            /\ Returned(UsersUrl) => u \in Elems(evenUsers)
            /\ PostsUrl(u.id) \notin IssuedUrls
            /\ RowsOfUser(u) = <<>>

\* Zed, whose id is 0 and who has a name and a post with a valid comment, came
\* before Ann: Zed is in evenUsers, has no row, and Ann's rows were written
C15_Witness ==
    /\ server.users = <<Zed, Ann>>
    /\ Len(server.commentsOf[server.postsOf[Zed.id][1].id]) > 0
    /\ evenUsers = <<Zed, Ann>>
    /\ pc = "done"
    /\ RowsOfUser(Zed) = <<>>
    /\ Len(RowsOfUser(Ann)) > 0
    /\ written = <<allRecords>>
\* the urls of the requests awaited now
PendingUrls == {r.url : r \in Pending}

\* the state part of C16
C16_State ==
    /\ \A r \in Pending :
         /\ r.attempts = r.retries + 1
         /\ r.retries <= CONFIG.maxRetries
    /\ last.ok /\ last.url # <<>> =>
         /\ last.attempts \in 1..(CONFIG.maxRetries + 1)
         /\ last.waits = Doubling(last.attempts - 1)
    /\ ~last.ok => last.attempts = CONFIG.maxRetries + 1
    /\ \A o \in outcomes : o.url \notin PendingUrls
    /\ Returned(UsersUrl) => evenUsers = SelectSeq(server.users, IsEven)
    /\ pc = "comments" =>
         /\ [i \in 1..Len(tasks) |-> tasks[i].post]
               = getPostsByUserId(server.postsOf[evenUsers[ui].id])
         /\ \A i \in 1..Len(tasks) :
               Returned(CommentsUrl(tasks[i].post.id)) =>
                  tasks[i].comments
                    = getCommentsByPostId(server.commentsOf[tasks[i].post.id])

\* the step part of C16: a request ends in the step in which its attempt in
\* flight succeeds or fails for the last time, with the attempts it had made
\* up to then, and it is not awaited after the step
C16_Step ==
    outcomes' # outcomes =>
        \E r \in Pending :
            /\ r.phase = "inflight"
            /\ last' = Outcome(r, last'.ok)
            /\ outcomes' = outcomes \cup {Ended(r, last'.ok)}
            /\ r.url \notin {x.url : x \in Pending'}
            /\ ~last'.ok => r.retries = CONFIG.maxRetries

\* C16: a request whose first k attempts fail (k <= maxRetries) and whose
\* attempt k + 1 succeeds returns the body after exactly k + 1 attempts and
\* the waits retryDelay, ..., retryDelay * 2^(k-1); the body is what the
\* caller goes on with; no attempt of a request is made after it has ended;
\* and a request raises its error only when attempt maxRetries + 1 failed.
C16_SuccessEndsRequest ==
    [](C16_State) /\ [][C16_Step]_vars

\* under maxRetries = 3 the comments request of post 1 failed three times and
\* returned at the fourth attempt, and the row of its comment was computed
C16_Witness ==
    /\ CONFIG.maxRetries = 3
    /\ CONFIG.retryDelay = 1000
    /\ last.url = CommentsUrl(P1.id)
    /\ last.ok
    /\ last.attempts = 4
    /\ last.waits = <<1000, 2000, 4000>>
    /\ Len(allRecords) = 1
    /\ allRecords[1].commentId = C1a.id
\* a user that the filter of line 154 or the check of line 158 leaves out
LeftOut(u) == (u.id.t = "number" /\ u.id.v % 2 = 1) \/ ~validateUser(u)

\* C17: the posts of a user with an odd id or that fails validateUser were
\* never requested, nor the comments of any of its posts; every posts url
\* requested is that of a user that is not left out, every comments url that
\* of a post of such a user; and the user whose posts or comments are awaited
\* has an even id and passes validateUser.
C17_NoFetchForSkippedUsers ==
    /\ \A u \in Elems(server.users) :
         LeftOut(u) =>
            /\ PostsUrl(u.id) \notin IssuedUrls
            /\ \A p \in Elems(server.postsOf[u.id]) : CommentsUrl(p.id) \notin IssuedUrls
    /\ \A url \in IssuedUrls \ {UsersUrl} :
         \E u \in Elems(server.users) :
            /\ ~LeftOut(u)
            /\ \/ url = PostsUrl(u.id)
               \/ \E p \in Elems(server.postsOf[u.id]) : url = CommentsUrl(p.id)
    /\ pc \in {"posts", "comments"} => ~LeftOut(evenUsers[ui])

\* Bob (id 3) and Eve (no name) each have a valid post; the run ended with
\* no other request than that of the users
C17_Witness ==
    /\ server.users = <<Bob, Eve>>
    /\ validatePost(server.postsOf[Bob.id][1])
    /\ validatePost(server.postsOf[Eve.id][1])
    /\ evenUsers = <<Eve>>
    /\ pc = "done"
    /\ IssuedUrls = {UsersUrl}
\* the tasks that have not settled
PendingTasks == {i \in 1..Len(tasks) : tasks[i].state = "pending"}

\* the state part of C18
C18_State ==
    /\ pc = "posts" =>
         /\ tasks = <<>>
         /\ Pending = {req}
         /\ req.url = PostsUrl(evenUsers[ui].id)
         /\ RowsOfUser(evenUsers[ui]) = <<>>
    /\ pc = "comments" =>
         /\ req = NoRequest
         /\ PendingTasks # {}
         /\ PendingUrls = {CommentsUrl(tasks[i].post.id) : i \in PendingTasks}
         /\ Elems([i \in 1..Len(tasks) |-> tasks[i].post])
               \subseteq Elems(server.postsOf[evenUsers[ui].id])
         /\ RowsOfUser(evenUsers[ui]) = <<>>
    /\ pc \in {"posts", "comments"} =>
         \A j \in (ui + 1)..Len(evenUsers) :
            /\ PostsUrl(evenUsers[j].id) \notin IssuedUrls
            /\ RowsOfUser(evenUsers[j]) = <<>>
    /\ pc \notin {"users", "posts", "comments"} => Pending = {}

\* the step part of C18: rows are appended, and the loop goes on to the next
\* user or ends, only in the step in which the last pending task of the
\* current user settles; the rows appended are rows of that user, and no
\* comments request is awaited after the step
C18_Step ==
    /\ IsPrefix(allRecords, allRecords')
    /\ (pc = "comments" /\ (allRecords' # allRecords \/ pc' # "comments")) =>
         /\ Cardinality(PendingTasks) = 1
         /\ tasks' = <<>>
         /\ \A k \in (Len(allRecords) + 1)..Len(allRecords') :
               allRecords'[k].userId = evenUsers[ui].id
    /\ allRecords' # allRecords => pc = "comments"

\* C18: the posts of the next user are requested only when every task of the
\* current user has settled and its rows are in allRecords; while a comments
\* request of a user is awaited, nothing is awaited for another user and
\* allRecords holds no row of the user.
C18_OneUserInFlight ==
    [](C18_State) /\ [][C18_Step]_vars

\* Ann's first task has settled with comments and her second is pending: she
\* has no row yet, and the posts of Dan, who comes after her, are not requested
C18_Witness ==
    /\ server.users = <<Ann, Dan>>
    /\ pc = "comments"
    /\ ui = 1
    /\ doneOrder = <<1>>
    /\ Len(tasks[1].comments) > 0
    /\ tasks[2].state = "pending"
    /\ allRecords = <<>>
    /\ PostsUrl(Dan.id) \notin IssuedUrls
\* C19: while the comments request of a task waits between two attempts, a
\* sibling task whose attempt is in flight can have it answered (and so
\* settle) or failed, and a sibling that waits too can have its timer fire.
C19_BackoffDoesNotBlock ==
    pc = "comments" =>
        \A i, j \in 1..Len(tasks) :
            (i # j /\ tasks[i].req.phase = "waiting") =>
                /\ tasks[j].req.phase = "inflight" =>
                     /\ ENABLED CommentsResponse(j)
                     /\ ENABLED (CommentsRetry(j) \/ CommentsFail(j))
                /\ tasks[j].req.phase = "waiting" => ENABLED CommentsReissue(j)

\* Ann's first task waits between its first and second attempt, and her
\* second task has settled with the comments of its post
C19_Witness ==
    /\ pc = "comments"
    /\ evenUsers[ui] = Ann
    /\ tasks[1].req.phase = "waiting"
    /\ tasks[1].req.attempts = 1
    /\ tasks[2].state = "fulfilled"
    /\ Len(tasks[2].comments) > 0
    /\ doneOrder = <<2>>
    /\ Returned(CommentsUrl(tasks[2].post.id))
\* C20 as claimed: every run ends, for good, in the state done or in the
\* fatal state after the users request failed.
C20_AsClaimed ==
    <>[](pc = "done" \/ (pc = "fatal" /\ Failed(UsersUrl)))

\* C20 as amended: no request makes more than maxRetries + 1 attempts; the
\* fatal state is entered only after the users request or writeRecords
\* failed; and every run ends, for good, in the state done or in the fatal
\* state, with no request awaited and no task pending.
C20_Terminates ==
    /\ [](\A r \in Pending : r.attempts <= CONFIG.maxRetries + 1)
    /\ [](pc = "fatal" => (Failed(UsersUrl) \/ <<"csv">> \in log))
    /\ <>[](Terminated /\ Pending = {} /\ PendingTasks = {})

\* under maxRetries = 1 the run of Ann's and Dan's data has ended in the
\* state done although a comments request of Ann and the posts request of Dan
\* failed for good
C20_Witness ==
    /\ server.users = <<Ann, Dan>>
    /\ CONFIG.maxRetries = 1
    /\ Failed(CommentsUrl(P1.id))
    /\ Failed(PostsUrl(Dan.id))
    /\ pc = "done"
    /\ Pending = {}

=============================================================================
